---------------------------- MODULE Spec2Model ----------------------------
(***************************************************************************)
(* The job-posting backend of this repository, in its three source         *)
(* revisions:                                                              *)
(*   "v6"  = src/server.js          (MySQL pool, SQLite fallback)          *)
(*   "v8"  = src/unnamed/part_001   (MySQL pool by env vars, SQLite        *)
(*                                   fallback)                             *)
(*   "v12" = src/unnamed/part_000   (PostgreSQL pool only)                 *)
(* State: the startup position, the active backend, the posts table, the   *)
(* connection pool, the requests in flight, and the last HTTP response.    *)
(***************************************************************************)
EXTENDS Integers, Sequences, FiniteSets, Bags, TLC

(***************************************************************************)
(* JavaScript / SQL values.  A text is a sequence of one-character         *)
(* strings, so that trim, split and JSON parsing are computed.  Scalars    *)
(* of the request body that the code only tests for truthiness and passes  *)
(* on (title, description, job_req_id, apply_link, company_logo) are TLA+  *)
(* strings, with markers for undefined and for SQL NULL.                   *)
(***************************************************************************)
UNDEF == "<undefined>"
NULL  == "<null>"

Falsy(x) == x \in {UNDEF, NULL, ""}

\* A bound parameter of a query: undefined and null both bind as SQL NULL
\* (mysql2 query(), sqlite3 run() and pg query() all do this).
Bind(x) == IF x \in {UNDEF, NULL} THEN NULL ELSE x

\* `x || null` of the JavaScript source.
OrNull(x) == IF Falsy(x) THEN NULL ELSE x

\* JSON values.  t: "undef" | "null" | "num" | "str" | "arr".
\* s: the text of a str or the digits of a num.  a: the elements of an arr,
\* each [t, s] with t in "null" | "num" | "str" | "arr" (a nested array keeps
\* no content: every reader here only asks whether an element is a string).
JUndef      == [t |-> "undef", s |-> <<>>, a |-> <<>>]
JNull       == [t |-> "null",  s |-> <<>>, a |-> <<>>]
JNum(ds)    == [t |-> "num",   s |-> ds,   a |-> <<>>]
JStr(cs)    == [t |-> "str",   s |-> cs,   a |-> <<>>]
JArr(es)    == [t |-> "arr",   s |-> <<>>, a |-> es]
EStr(cs)    == [t |-> "str",  s |-> cs]
ENull       == [t |-> "null", s |-> <<>>]
ENum(ds)    == [t |-> "num",  s |-> ds]
ENested     == [t |-> "arr",  s |-> <<>>]
AsElem(v)   == [t |-> v.t, s |-> v.s]

DQ == "\""
BS == "\\"
SP == " "
Digits == {"0", "1", "2", "3", "4", "5", "6", "7", "8", "9"}

----------------------------------------------------------------------------
(* String.prototype.trim, String.prototype.split(','), Array.filter.       *)

RECURSIVE DropLeading(_)
DropLeading(cs) ==
    IF cs # <<>> /\ Head(cs) = SP THEN DropLeading(Tail(cs)) ELSE cs

RECURSIVE DropTrailing(_)
DropTrailing(cs) ==
    IF cs # <<>> /\ cs[Len(cs)] = SP
    THEN DropTrailing(SubSeq(cs, 1, Len(cs) - 1))
    ELSE cs

Trim(cs) == DropTrailing(DropLeading(cs))

\* cs.split(','): the pieces between the commas, empty pieces kept;
\* ''.split(',') is [''].
RECURSIVE SplitFrom(_, _, _)
SplitFrom(cs, cur, acc) ==
    IF cs = <<>> THEN Append(acc, cur)
    ELSE IF Head(cs) = "," THEN SplitFrom(Tail(cs), <<>>, Append(acc, cur))
    ELSE SplitFrom(Tail(cs), Append(cur, Head(cs)), acc)

SplitComma(cs) == SplitFrom(cs, <<>>, <<>>)

RECURSIVE MapTrim(_)
MapTrim(ss) ==
    IF ss = <<>> THEN <<>> ELSE <<Trim(Head(ss))>> \o MapTrim(Tail(ss))

RECURSIVE FilterNonEmpty(_)
FilterNonEmpty(ss) ==
    IF ss = <<>> THEN <<>>
    ELSE IF Head(ss) = <<>> THEN FilterNonEmpty(Tail(ss))
    ELSE <<Head(ss)>> \o FilterNonEmpty(Tail(ss))

RECURSIVE TextsToElems(_)
TextsToElems(ss) ==
    IF ss = <<>> THEN <<>> ELSE <<EStr(Head(ss))>> \o TextsToElems(Tail(ss))

----------------------------------------------------------------------------
(* JSON.stringify on the values above.                                     *)

RECURSIVE Escape(_)
Escape(cs) ==
    IF cs = <<>> THEN <<>>
    ELSE IF Head(cs) \in {DQ, BS} THEN <<BS, Head(cs)>> \o Escape(Tail(cs))
    ELSE <<Head(cs)>> \o Escape(Tail(cs))

StringifyElem(e) ==
    CASE e.t = "str" -> <<DQ>> \o Escape(e.s) \o <<DQ>>
      [] e.t = "num" -> e.s
      [] e.t = "arr" -> <<"[", "]">>
      [] OTHER       -> <<"n", "u", "l", "l">>

RECURSIVE StringifyElems(_)
StringifyElems(es) ==
    IF es = <<>> THEN <<>>
    ELSE IF Len(es) = 1 THEN StringifyElem(es[1])
    ELSE StringifyElem(es[1]) \o <<",">> \o StringifyElems(Tail(es))

JSONStringify(v) ==
    IF v.t = "arr" THEN <<"[">> \o StringifyElems(v.a) \o <<"]">>
    ELSE StringifyElem(AsElem(v))

----------------------------------------------------------------------------
(* JSON.parse on the texts the model can hold: strings with the escapes    *)
(* \" and \\, integers, null, arrays (nested), and blanks between tokens.  *)
(* Objects, true, false, fractions and the other escapes need characters   *)
(* no text of the model contains.                                          *)

ParseFail == [ok |-> FALSE, v |-> JUndef, next |-> 0]
ParseOk(v, next) == [ok |-> TRUE, v |-> v, next |-> next]

RECURSIVE SkipWs(_, _)
SkipWs(cs, i) ==
    IF i <= Len(cs) /\ cs[i] = SP THEN SkipWs(cs, i + 1) ELSE i

RECURSIVE ScanDigits(_, _)
ScanDigits(cs, i) ==
    IF i <= Len(cs) /\ cs[i] \in Digits THEN ScanDigits(cs, i + 1) ELSE i

\* i is just past the opening quote.
RECURSIVE ScanStr(_, _, _)
ScanStr(cs, i, acc) ==
    IF i > Len(cs) THEN ParseFail
    ELSE IF cs[i] = DQ THEN ParseOk(JStr(acc), i + 1)
    ELSE IF cs[i] = BS
         THEN IF i + 1 <= Len(cs) /\ cs[i + 1] \in {DQ, BS}
              THEN ScanStr(cs, i + 2, Append(acc, cs[i + 1]))
              ELSE ParseFail
    ELSE ScanStr(cs, i + 1, Append(acc, cs[i]))

RECURSIVE ParseValue(_, _)
RECURSIVE ParseElems(_, _, _)

ParseValue(cs, i) ==
    IF i > Len(cs) THEN ParseFail
    ELSE IF cs[i] = DQ THEN ScanStr(cs, i + 1, <<>>)
    ELSE IF cs[i] = "["
         THEN LET j == SkipWs(cs, i + 1)
              IN  IF j <= Len(cs) /\ cs[j] = "]"
                  THEN ParseOk(JArr(<<>>), j + 1)
                  ELSE ParseElems(cs, j, <<>>)
    ELSE IF cs[i] = "0" THEN ParseOk(JNum(<<"0">>), i + 1)
    ELSE IF cs[i] \in Digits
         THEN LET j == ScanDigits(cs, i)
              IN  ParseOk(JNum(SubSeq(cs, i, j - 1)), j)
    ELSE IF i + 3 <= Len(cs) /\ SubSeq(cs, i, i + 3) = <<"n", "u", "l", "l">>
         THEN ParseOk(JNull, i + 4)
    ELSE ParseFail

\* i is at the first character of an element.
ParseElems(cs, i, acc) ==
    LET r == ParseValue(cs, i)
    IN  IF ~r.ok THEN ParseFail
        ELSE LET j    == SkipWs(cs, r.next)
                 acc2 == Append(acc, AsElem(r.v))
             IN  IF j > Len(cs) THEN ParseFail
                 ELSE IF cs[j] = "]" THEN ParseOk(JArr(acc2), j + 1)
                 ELSE IF cs[j] = "," THEN ParseElems(cs, SkipWs(cs, j + 1), acc2)
                 ELSE ParseFail

\* [ok, v]: ok is FALSE where JSON.parse throws.
JSONParse(cs) ==
    LET r == ParseValue(cs, SkipWs(cs, 1))
    IN  IF r.ok /\ SkipWs(cs, r.next) = Len(cs) + 1
        THEN [ok |-> TRUE, v |-> r.v]
        ELSE [ok |-> FALSE, v |-> JUndef]

----------------------------------------------------------------------------
(* The skills field: what each revision writes into the skills column and  *)
(* what it answers from it.                                                *)

\* JavaScript truthiness of a JSON value.
Truthy(v) ==
    CASE v.t = "arr" -> TRUE
      [] v.t = "str" -> v.s # <<>>
      [] v.t = "num" -> v.s # <<"0">>
      [] OTHER       -> FALSE

\* A column value.  k = "json": a JSON/JSONB column holding the value v (the
\* driver hands v back decoded).  k = "text": a TEXT column holding cs.
JsonCell(v)  == [k |-> "json", v |-> v,      cs |-> <<>>]
TextCell(cs) == [k |-> "text", v |-> JUndef, cs |-> cs]

\* What the driver returns for the column: the decoded value, or the text
\* as a string.
CellValue(c) == IF c.k = "json" THEN c.v ELSE JStr(c.cs)

\* .filter(s => s && typeof s === 'string')
RECURSIVE FilterStrings(_)
FilterStrings(es) ==
    IF es = <<>> THEN <<>>
    ELSE IF Head(es).t = "str" /\ Head(es).s # <<>>
         THEN <<Head(es).s>> \o FilterStrings(Tail(es))
    ELSE FilterStrings(Tail(es))

\* v12: the "Initial skills handling" and cleanSkills.
NormalizeSkills(skills) ==
    LET parsed == JSONParse(skills.s)
        s1 == IF skills.t = "str"
              THEN IF parsed.ok THEN parsed.v
                   ELSE JArr(TextsToElems(
                            FilterNonEmpty(MapTrim(SplitComma(skills.s)))))
              ELSE skills
        s2 == IF s1.t = "arr" THEN s1.a ELSE <<>>
    IN  JArr(TextsToElems(FilterNonEmpty(MapTrim(FilterStrings(s2)))))

\* v12: skillsJsonString bound to $9::jsonb.
SkillsCellPg(skills) ==
    JsonCell(JSONParse(JSONStringify(NormalizeSkills(skills))).v)

\* v6/v8: JSON.stringify(skills || []).
SkillsText(skills) ==
    JSONStringify(IF Truthy(skills) THEN skills ELSE JArr(<<>>))

\* v6/v8 on MySQL: the text goes into a JSON column.
SkillsCellMySQL(skills) == JsonCell(JSONParse(SkillsText(skills)).v)

\* v6/v8 on SQLite: the text goes into a TEXT column.
SkillsCellSqlite(skills) == TextCell(SkillsText(skills))

\* v6/v8 GET /posts: the "Parse skills" loop.
ListSkills(js) ==
    IF Truthy(js)
    THEN IF js.t = "str"
         THEN LET r == JSONParse(js.s) IN IF r.ok THEN r.v ELSE JArr(<<>>)
         ELSE js
    ELSE JArr(<<>>)

\* v6/v8 GET /posts/:id: parsed only when a non-empty string.
ByIdSkills(js) ==
    IF Truthy(js) /\ js.t = "str"
    THEN LET r == JSONParse(js.s) IN IF r.ok THEN r.v ELSE JArr(<<>>)
    ELSE js


----------------------------------------------------------------------------
(* Bounds of the model.                                                    *)

MaxPosts    == 2
MaxInflight == 2
MaxClock    == 1
MaxFailures == 1

\* connectionLimit of the MySQL pool; the page size of GET /posts.
ConnectionLimit == 15
PageSize        == 24

----------------------------------------------------------------------------
VARIABLES
    impl,        \* the revision that runs: "v6", "v8" or "v12"
    env,         \* the environment variables that are set
    phase,       \* "boot", "connected", "ready", "listening", "exited", "crashed"
    pool,        \* the store handle: "none", "mysql", "sqlite" or "pg"
    isMySQL,     \* the active-backend flag of v6/v8
    probes,      \* connections startup has attempted to the primary store
    posts,       \* the posts table
    nextId,      \* the table's auto-increment counter
    now,         \* the store's clock, in seconds
    checkedOut,  \* MySQL pool connections obtained and not released
    failures,    \* engine calls that have failed
    inflight,    \* the requests being served (a bag)
    last         \* the most recent response or background statement

vars == <<impl, env, phase, pool, isMySQL, probes, posts, nextId, now,
          checkedOut, failures, inflight, last>>

----------------------------------------------------------------------------
(* The posts table.  A row: id, title, description, company_logo,          *)
(* job_req_id, apply_link, skills (a column value), created_at.  The       *)
(* columns company_name, location, experience, remote_type, time_type and  *)
(* posted_date are bound on insert and named in no conflict clause; they   *)
(* are not carried.  The table is the sequence of its rows in insertion    *)
(* order.                                                                  *)

NoRow == [id |-> 0, title |-> NULL, description |-> NULL, company_logo |-> NULL,
          job_req_id |-> NULL, apply_link |-> NULL, skills |-> JsonCell(JNull),
          created_at |-> 0]

\* The positions of the rows that hold key k: the UNIQUE index on job_req_id,
\* which never matches NULL.
RowsWithKey(tbl, k) ==
    IF k = NULL THEN {} ELSE {i \in DOMAIN tbl : tbl[i].job_req_id = k}

\* INSERT of one row: id from the auto-increment counter, created_at from
\* DEFAULT CURRENT_TIMESTAMP / NOW().
InsertRow(tbl, id, ts, vals) ==
    Append(tbl, [id |-> id, title |-> vals.title, description |-> vals.description,
                 company_logo |-> vals.company_logo, job_req_id |-> vals.job_req_id,
                 apply_link |-> vals.apply_link, skills |-> vals.skills,
                 created_at |-> ts])

\* A conflict clause that replaces the row (REPLACE INTO): a new id and a new
\* created_at.
ConflictReplaceMySQL(row, vals) ==
    [row EXCEPT !.title = vals.title, !.description = vals.description,
                !.apply_link = vals.apply_link, !.id = nextId, !.created_at = now]

\* v6/v8, MySQL: ON DUPLICATE KEY UPDATE title, description, apply_link.
ConflictUpdateMySQL(row, vals) ==
    [row EXCEPT !.title = vals.title, !.description = vals.description,
                !.apply_link = vals.apply_link]

\* v12, PostgreSQL: ON CONFLICT (job_req_id) DO UPDATE SET title, description,
\* apply_link, company_logo, skills.
ConflictUpdatePg(row, vals) ==
    [row EXCEPT !.title = vals.title, !.description = vals.description,
                !.apply_link = vals.apply_link,
                !.company_logo = vals.company_logo, !.skills = vals.skills]

\* v6/v8, SQLite: INSERT OR IGNORE leaves the row that holds the key alone.
ConflictIgnoreSqlite(row, vals) == row

ConflictRow(be, row, vals) ==
    CASE be = "mysql" -> ConflictUpdateMySQL(row, vals)
      [] be = "pg"    -> ConflictUpdatePg(row, vals)
      [] OTHER        -> ConflictIgnoreSqlite(row, vals)

\* The values a POST binds to its INSERT, by backend.
BoundValues(be, p) ==
    [title        |-> Bind(p.title),
     description  |-> Bind(p.description),
     company_logo |-> Bind(p.company_logo),
     job_req_id   |-> IF be = "pg" THEN Bind(p.job_req_id) ELSE OrNull(p.job_req_id),
     apply_link   |-> Bind(p.apply_link),
     skills       |-> CASE be = "pg"    -> SkillsCellPg(p.skills)
                        [] be = "mysql" -> SkillsCellMySQL(p.skills)
                        [] OTHER        -> SkillsCellSqlite(p.skills)]

\* The table after the statement of a POST: the conflict clause on the row
\* that holds the key, or a new row.
UpsertTable(be, tbl, id, ts, vals) ==
    LET hit == RowsWithKey(tbl, vals.job_req_id)
    IN  IF hit = {}
        THEN InsertRow(tbl, id, ts, vals)
        ELSE [i \in DOMAIN tbl |->
                 IF i \in hit THEN ConflictRow(be, tbl[i], vals) ELSE tbl[i]]

----------------------------------------------------------------------------
(* Request inputs.                                                         *)

NoPayload == [title |-> UNDEF, description |-> UNDEF, company_logo |-> UNDEF,
              job_req_id |-> UNDEF, apply_link |-> UNDEF, skills |-> JUndef]

\* req.body of a POST /posts: the optional fields company_logo, apply_link and
\* skills are all given (full) or all left out.
MkPayload(title, description, key, full) ==
    [title |-> title, description |-> description,
     company_logo |-> IF full THEN "G" ELSE UNDEF,
     job_req_id |-> key,
     apply_link |-> IF full THEN "L" ELSE UNDEF,
     skills |-> IF full THEN JArr(<<EStr(<<"a">>)>>) ELSE JUndef]

\* req.query.page: absent, not a number, or an integer.
PageAbsent  == [kind |-> "absent",     n |-> 0]
PageNaN     == [kind |-> "nonnumeric", n |-> 0]
PageInt(n)  == [kind |-> "int",        n |-> n]

\* process.env, as the set of the variables that are set.
EnvIn(v) ==
    CASE v = "v6"  -> {{}}
      [] v = "v8"  -> {{}, {"DB_HOST", "DB_USER", "DB_PASSWORD"}}
      [] OTHER     -> {{}, {"DATABASE_URL"}}

----------------------------------------------------------------------------
\* A request in flight: its handler, the await it is at, and its locals.
Req(op, pc, p, page, id) ==
    [op |-> op, pc |-> pc, p |-> p, page |-> page, id |-> id, rows |-> <<>>]

InFlight == BagToSet(inflight)
Admit(r) == inflight (+) SetToBag({r})
Finish(r) == inflight (-) SetToBag({r})
Move(r, r2) == (inflight (-) SetToBag({r})) (+) SetToBag({r2})
HasSlot == BagCardinality(inflight) < MaxInflight

NoBody == [jobs |-> <<>>, currentPage |-> 0, totalPages |-> 0, totalJobs |-> 0,
           hasFlags |-> FALSE, hasNext |-> FALSE, hasPrev |-> FALSE, job |-> NoRow]

\* op: "none", "post", "list", "get" (an HTTP response) or "run" (a statement
\* SQLite ran after its request was answered).  status: the HTTP status the
\* request got.  failed: the engine call of the operation failed.  prevLen,
\* prevRow: the size of the table before the operation, and the row that held
\* the payload's key then (NoRow when none did).
NoLast == [op |-> "none", status |-> 0, p |-> NoPayload, failed |-> FALSE,
           prevLen |-> 0, prevRow |-> NoRow, body |-> NoBody]

\* The row of the table that a POST with payload p meets under its key.
RowUnderKey(be, p) ==
    LET hit == RowsWithKey(posts, BoundValues(be, p).job_req_id)
    IN  IF hit = {} THEN NoRow ELSE posts[CHOOSE i \in hit : TRUE]

Response(op, status, payload, failed, body) ==
    [op |-> op, status |-> status, p |-> payload, failed |-> failed,
     prevLen |-> Len(posts), prevRow |-> NoRow, body |-> body]

WriteResponse(op, status, be, payload, failed) ==
    [op |-> op, status |-> status, p |-> payload, failed |-> failed,
     prevLen |-> Len(posts), prevRow |-> RowUnderKey(be, payload), body |-> NoBody]

\* The branch a handler takes.
Backend == IF impl = "v12" THEN "pg" ELSE IF isMySQL THEN "mysql" ELSE "sqlite"

Init ==
    /\ impl \in {"v6", "v8", "v12"}
    /\ env \in EnvIn(impl)
    /\ phase = "boot"
    /\ pool = "none"
    /\ isMySQL = FALSE
    /\ probes = 0
    /\ posts = <<>>
    /\ nextId = 1
    /\ now = 0
    /\ checkedOut = 0
    /\ failures = 0
    /\ inflight = EmptyBag
    /\ last = NoLast

----------------------------------------------------------------------------
(* Startup.                                                                *)

\* v8: missing.length > 0 && !process.env.DB_HOST.  v6 has defaults for every
\* setting and always probes.
SkipsProbe ==
    /\ impl = "v8"
    /\ {"DB_HOST", "DB_USER", "DB_PASSWORD"} \ env # {}
    /\ "DB_HOST" \notin env

\* connectToDatabase of v6/v8: the pool's first connection decides the backend.
ConnectToDatabase ==
    /\ impl \in {"v6", "v8"}
    /\ phase = "boot"
    /\ \/ /\ SkipsProbe
          /\ pool' = "sqlite" /\ isMySQL' = FALSE /\ phase' = "ready"
          /\ UNCHANGED probes
       \/ /\ ~SkipsProbe
          /\ probes' = probes + 1
          /\ \/ pool' = "mysql" /\ isMySQL' = TRUE /\ phase' = "connected"
             \/ pool' = "sqlite" /\ isMySQL' = FALSE /\ phase' = "ready"
    /\ UNCHANGED <<impl, env, posts, nextId, now, checkedOut, failures, inflight, last>>

\* initializeMySQLTable of v6/v8: pool.getConnection(), CREATE TABLE IF NOT
\* EXISTS, conn.release().  A failure is logged and startup goes on; when it
\* is the query that threw, conn.release() is not reached.
InitializeMySQLTable ==
    /\ impl \in {"v6", "v8"}
    /\ phase = "connected"
    /\ isMySQL
    /\ phase' = "ready"
    /\ \/ UNCHANGED <<failures, checkedOut>>
       \/ /\ failures < MaxFailures
          /\ failures' = failures + 1
          /\ checkedOut' \in {checkedOut, checkedOut + 1}
    /\ UNCHANGED <<impl, env, pool, isMySQL, probes, posts, nextId, now, inflight, last>>

\* v12: the pool is built from DATABASE_URL; without it the process exits
\* with status 1.  initDB: SELECT 1 and CREATE TABLE IF NOT EXISTS; a failure
\* of either is logged and startup goes on with the same pool.
InitDB ==
    /\ impl = "v12"
    /\ phase = "boot"
    /\ IF "DATABASE_URL" \in env
       THEN /\ pool' = "pg" /\ phase' = "ready" /\ probes' = probes + 1
            /\ \/ UNCHANGED failures
               \/ failures < MaxFailures /\ failures' = failures + 1
       ELSE /\ pool' = pool /\ phase' = "exited" /\ probes' = probes
            /\ UNCHANGED failures
    /\ UNCHANGED <<impl, env, isMySQL, posts, nextId, now, checkedOut, inflight, last>>

\* app.listen
Listen ==
    /\ phase = "ready"
    /\ phase' = "listening"
    /\ UNCHANGED <<impl, env, pool, isMySQL, probes, posts, nextId, now, checkedOut,
                   failures, inflight, last>>

\* A second passes on the store's clock.
Tick ==
    /\ phase = "listening"
    /\ now < MaxClock
    /\ now' = now + 1
    /\ UNCHANGED <<impl, env, phase, pool, isMySQL, probes, posts, nextId,
                   checkedOut, failures, inflight, last>>

----------------------------------------------------------------------------
(* POST /posts                                                             *)

\* A validation that tests the title alone.
ValidateTitleOnly(p) == ~Falsy(p.title)

\* The request passes `if (!title || !description)`.
Validate(p) == ~Falsy(p.title) /\ ~Falsy(p.description)

\* The statement of a POST can run: the model's table has room for the row it
\* would add.
HasRoom(be, p) ==
    \/ RowsWithKey(posts, BoundValues(be, p).job_req_id) # {}
    \/ Len(posts) < MaxPosts

\* The await a handler reaches first: pool.getConnection() on MySQL, else its
\* first query; a POST on SQLite queues its statement with pool.run().
FirstAwait(op) ==
    CASE Backend = "mysql"                 -> "getconn"
      [] Backend # "mysql" /\ op = "list"  -> "rows"
      [] Backend = "sqlite" /\ op = "post" -> "run"
      [] OTHER                             -> "query"

\* The handler up to its first await.  v6/v8 on SQLite: pool.run() has no
\* callback and the handler answers 201 at once.
PostReceive(p) ==
    /\ phase = "listening"
    /\ IF ~Validate(p)
       THEN /\ last' = Response("post", 400, p, FALSE, NoBody)
            /\ UNCHANGED inflight
       ELSE /\ HasSlot
            /\ inflight' = Admit(Req("post", FirstAwait("post"), p, 0, 0))
            /\ last' = IF Backend = "sqlite"
                       THEN Response("post", 201, p, FALSE, NoBody)
                       ELSE last
    /\ UNCHANGED <<impl, env, phase, pool, isMySQL, probes, posts, nextId, now,
                   checkedOut, failures>>

\* A handler that answers a failed pool.getConnection() by replacing the pool
\* with the SQLite database.
AcquireConnFailover(r) ==
    /\ phase = "listening"
    /\ r.pc = "getconn"
    /\ \/ /\ checkedOut < ConnectionLimit
          /\ checkedOut' = checkedOut + 1
          /\ inflight' = Move(r, [r EXCEPT !.pc = IF r.op = "list" THEN "rows"
                                                   ELSE "query"])
          /\ UNCHANGED <<failures, last, pool, isMySQL>>
       \/ /\ failures < MaxFailures
          /\ failures' = failures + 1
          /\ last' = Response(r.op, 500, r.p, TRUE, NoBody)
          /\ inflight' = Finish(r)
          /\ pool' = "sqlite" /\ isMySQL' = FALSE
          /\ UNCHANGED checkedOut
    /\ UNCHANGED <<impl, env, phase, probes, posts, nextId, now>>

\* await pool.getConnection() of a v6/v8 handler on MySQL.  With every
\* connection out the call waits (waitForConnections, queueLimit 0); when it
\* throws, the handler's catch answers 500.
AcquireConn(r) ==
    /\ phase = "listening"
    /\ r.pc = "getconn"
    /\ \/ /\ checkedOut < ConnectionLimit
          /\ checkedOut' = checkedOut + 1
          /\ inflight' = Move(r, [r EXCEPT !.pc = IF r.op = "list" THEN "rows"
                                                   ELSE "query"])
          /\ UNCHANGED <<failures, last>>
       \/ /\ failures < MaxFailures
          /\ failures' = failures + 1
          /\ last' = Response(r.op, 500, r.p, TRUE, NoBody)
          /\ inflight' = Finish(r)
          /\ UNCHANGED checkedOut
    /\ UNCHANGED <<impl, env, phase, pool, isMySQL, probes, posts, nextId, now>>

\* conn.release() of a v6/v8 handler on MySQL: the statement after the
\* awaited queries, reached only when none of them threw.
Released == IF Backend = "mysql" THEN checkedOut - 1 ELSE checkedOut

\* await conn.query(INSERT ...) on MySQL, await pool.query(INSERT ...) on
\* PostgreSQL, and what follows it in the handler.
PostQuery(r) ==
    /\ phase = "listening"
    /\ r.op = "post" /\ r.pc = "query"
    /\ \/ /\ HasRoom(Backend, r.p)
          /\ posts' = UpsertTable(Backend, posts, nextId, now, BoundValues(Backend, r.p))
          /\ nextId' = IF Len(posts') > Len(posts) THEN nextId + 1 ELSE nextId
          /\ checkedOut' = Released
          /\ last' = WriteResponse("post", 201, Backend, r.p, FALSE)
          /\ UNCHANGED failures
       \/ /\ failures < MaxFailures
          /\ failures' = failures + 1
          /\ last' = WriteResponse("post", 500, Backend, r.p, TRUE)
          /\ UNCHANGED <<posts, nextId, checkedOut>>
    /\ inflight' = Finish(r)
    /\ UNCHANGED <<impl, env, phase, pool, isMySQL, probes, now>>

\* SQLite runs the statement pool.run() queued.  The request was answered
\* 201 before; an error has no callback to go to and is emitted as an
\* 'error' event nothing listens to, which may end the process.
PostRun(r) ==
    /\ phase = "listening"
    /\ r.op = "post" /\ r.pc = "run"
    /\ \/ /\ HasRoom("sqlite", r.p)
          /\ posts' = UpsertTable("sqlite", posts, nextId, now, BoundValues("sqlite", r.p))
          /\ nextId' = IF Len(posts') > Len(posts) THEN nextId + 1 ELSE nextId
          /\ last' = WriteResponse("run", 201, "sqlite", r.p, FALSE)
          /\ UNCHANGED <<failures, phase>>
       \/ /\ failures < MaxFailures
          /\ failures' = failures + 1
          /\ last' = WriteResponse("run", 201, "sqlite", r.p, TRUE)
          /\ phase' \in {"listening", "crashed"}
          /\ UNCHANGED <<posts, nextId>>
    /\ inflight' = Finish(r)
    /\ UNCHANGED <<impl, env, pool, isMySQL, probes, now, checkedOut>>

----------------------------------------------------------------------------
(* GET /posts                                                              *)

Max(a, b) == IF a >= b THEN a ELSE b
Min(a, b) == IF a <= b THEN a ELSE b

\* Math.max(1, parseInt(req.query.page) || 1): parseInt is NaN for an absent
\* or non-numeric value, and NaN and 0 are falsy.
ParsePage(q) == IF q.kind = "int" /\ q.n # 0 THEN Max(1, q.n) ELSE 1

\* Math.ceil(total / limit) for total >= 0.
CeilDiv(total, limit) == (total + limit - 1) \div limit

RECURSIVE PermSeqs(_)
PermSeqs(S) ==
    IF S = {} THEN {<<>>}
    ELSE UNION {{<<x>> \o r : r \in PermSeqs(S \ {x})} : x \in S}

\* ORDER BY created_at DESC: the orders of the row positions in S that SQL
\* allows.  Rows with equal created_at may come in any order: the statement
\* names no second sort key.
RECURSIVE Orderings(_, _)
Orderings(tbl, S) ==
    IF S = {} THEN {<<>>}
    ELSE LET newest == CHOOSE i \in S : \A j \in S : tbl[j].created_at <= tbl[i].created_at
             top    == {i \in S : tbl[i].created_at = tbl[newest].created_at}
         IN  {a \o b : a \in PermSeqs(top), b \in Orderings(tbl, S \ top)}

\* LIMIT limit OFFSET offset of an ordered result.
Window(ord, limit, offset) == SubSeq(ord, offset + 1, Min(Len(ord), offset + limit))

\* SELECT * FROM posts ORDER BY created_at DESC LIMIT 24 OFFSET (page-1)*24:
\* the results the engine may return.
SelectPage(tbl, page) ==
    {[n \in DOMAIN w |-> tbl[w[n]]] :
        w \in {Window(ord, PageSize, (page - 1) * PageSize) :
                  ord \in Orderings(tbl, DOMAIN tbl)}}

\* The skills of a row as the response carries it.
ListedRow(row) ==
    [row EXCEPT !.skills = IF impl = "v12" THEN CellValue(row.skills)
                           ELSE ListSkills(CellValue(row.skills))]

\* The body of res.json({jobs, pagination}).  v12 sends neither hasNext nor
\* hasPrev.
ListBody(rows, page, total) ==
    [NoBody EXCEPT
        !.jobs = [n \in DOMAIN rows |-> ListedRow(rows[n])],
        !.currentPage = page,
        !.totalPages = CeilDiv(total, PageSize),
        !.totalJobs = total,
        !.hasFlags = (impl # "v12"),
        !.hasNext = (impl # "v12" /\ page < CeilDiv(total, PageSize)),
        !.hasPrev = (impl # "v12" /\ page > 1)]

\* The handler up to its first await.
ListReceive(q) ==
    /\ phase = "listening"
    /\ HasSlot
    /\ inflight' = Admit(Req("list", FirstAwait("list"), NoPayload, ParsePage(q), 0))
    /\ UNCHANGED <<impl, env, phase, pool, isMySQL, probes, posts, nextId, now,
                   checkedOut, failures, last>>

\* The first query: the page of rows.  A failure throws (MySQL, PostgreSQL)
\* or rejects (SQLite), and the catch answers 500.
ListRows(r) ==
    /\ phase = "listening"
    /\ r.op = "list" /\ r.pc = "rows"
    /\ \/ /\ \E rows \in SelectPage(posts, r.page) :
                inflight' = Move(r, [r EXCEPT !.pc = "count", !.rows = rows])
          /\ UNCHANGED <<failures, last>>
       \/ /\ failures < MaxFailures
          /\ failures' = failures + 1
          /\ last' = Response("list", 500, NoPayload, TRUE, NoBody)
          /\ inflight' = Finish(r)
    /\ UNCHANGED <<impl, env, phase, pool, isMySQL, probes, posts, nextId, now,
                   checkedOut>>

\* The second query, SELECT COUNT(*), and the response.
ListCount(r) ==
    /\ phase = "listening"
    /\ r.op = "list" /\ r.pc = "count"
    /\ \/ /\ checkedOut' = Released
          /\ last' = Response("list", 200, NoPayload, FALSE,
                              ListBody(r.rows, r.page, Len(posts)))
          /\ UNCHANGED failures
       \/ /\ failures < MaxFailures
          /\ failures' = failures + 1
          /\ last' = Response("list", 500, NoPayload, TRUE, NoBody)
          /\ UNCHANGED checkedOut
    /\ inflight' = Finish(r)
    /\ UNCHANGED <<impl, env, phase, pool, isMySQL, probes, posts, nextId, now>>

----------------------------------------------------------------------------
(* GET /posts/:id                                                          *)

\* SELECT * FROM posts WHERE id = ?: the row, or NoRow.
SelectById(tbl, id) ==
    IF \E i \in DOMAIN tbl : tbl[i].id = id
    THEN tbl[CHOOSE i \in DOMAIN tbl : tbl[i].id = id]
    ELSE NoRow

\* The skills of the row as the response carries it.
FetchedRow(row) ==
    [row EXCEPT !.skills = IF impl = "v12" THEN CellValue(row.skills)
                           ELSE ByIdSkills(CellValue(row.skills))]

\* What the handler answers when its query failed.  v6/v8 on SQLite: the
\* callback drops err and resolves row || null, which the handler takes for
\* a missing row.
GetFailureStatus == IF Backend = "sqlite" THEN 404 ELSE 500

\* The handler up to its first await.
GetReceive(id) ==
    /\ phase = "listening"
    /\ HasSlot
    /\ inflight' = Admit(Req("get", FirstAwait("get"), NoPayload, 0, id))
    /\ UNCHANGED <<impl, env, phase, pool, isMySQL, probes, posts, nextId, now,
                   checkedOut, failures, last>>

\* The query and the response.
GetQuery(r) ==
    /\ phase = "listening"
    /\ r.op = "get" /\ r.pc = "query"
    /\ \/ /\ LET row == SelectById(posts, r.id)
             IN  last' = IF row = NoRow
                         THEN Response("get", 404, NoPayload, FALSE, NoBody)
                         ELSE Response("get", 200, NoPayload, FALSE,
                                       [NoBody EXCEPT !.job = FetchedRow(row)])
          /\ checkedOut' = Released
          /\ UNCHANGED failures
       \/ /\ failures < MaxFailures
          /\ failures' = failures + 1
          /\ last' = Response("get", GetFailureStatus, NoPayload, TRUE, NoBody)
          /\ UNCHANGED checkedOut
    /\ inflight' = Finish(r)
    /\ UNCHANGED <<impl, env, phase, pool, isMySQL, probes, posts, nextId, now>>


----------------------------------------------------------------------------
(* Specifications.  Each draws the requests from its own input sets.       *)

\* A payload with the given skills, written under the key "k".
MkSkillsPayload(sk) == [MkPayload("A", "D", "k", TRUE) EXCEPT !.skills = sk]

\* No request is being served: a client that waits for each answer.
Idle == inflight = EmptyBag

\* Concurrent callers that write under one key, or under none.
WriteIn ==
    {MkPayload(t, "D", k, TRUE) : t \in {"A", "B"}, k \in {UNDEF, "k"}}

NextWrite ==
    \/ ConnectToDatabase
    \/ InitializeMySQLTable
    \/ InitDB
    \/ Listen
    \/ Tick
    \/ \E p \in WriteIn : PostReceive(p)
    \/ \E r \in InFlight : AcquireConn(r)
    \/ \E r \in InFlight : PostQuery(r)
    \/ \E r \in InFlight : PostRun(r)

SpecWrite == Init /\ [][NextWrite]_vars

\* The same writes from one caller that waits for each answer.
NextRewrite ==
    \/ ConnectToDatabase
    \/ InitializeMySQLTable
    \/ InitDB
    \/ Listen
    \/ Tick
    \/ \E p \in WriteIn : Idle /\ PostReceive(p)
    \/ \E r \in InFlight : AcquireConn(r)
    \/ \E r \in InFlight : PostQuery(r)
    \/ \E r \in InFlight : PostRun(r)

SpecRewrite == Init /\ [][NextRewrite]_vars

\* One caller that posts accepted payloads: every shape of job_req_id, the
\* optional fields given or left out.
UpsertIn ==
    {MkPayload("A", "D", k, f) : k \in {UNDEF, NULL, "", "k"}, f \in BOOLEAN}

NextUpsert ==
    \/ ConnectToDatabase
    \/ InitializeMySQLTable
    \/ InitDB
    \/ Listen
    \/ Tick
    \/ \E p \in UpsertIn : Idle /\ PostReceive(p)
    \/ \E r \in InFlight : AcquireConn(r)
    \/ \E r \in InFlight : PostQuery(r)
    \/ \E r \in InFlight : PostRun(r)

SpecUpsert == Init /\ [][NextUpsert]_vars

\* One caller that posts every shape of title and description.
ValidateIn ==
    {MkPayload(t, d, k, TRUE) : t \in {UNDEF, NULL, "", "A"},
                                d \in {UNDEF, NULL, "", "D"}, k \in {UNDEF, "k"}}

NextValidate ==
    \/ ConnectToDatabase
    \/ InitializeMySQLTable
    \/ InitDB
    \/ Listen
    \/ Tick
    \/ \E p \in ValidateIn : Idle /\ PostReceive(p)
    \/ \E r \in InFlight : AcquireConn(r)
    \/ \E r \in InFlight : PostQuery(r)
    \/ \E r \in InFlight : PostRun(r)

SpecValidate == Init /\ [][NextValidate]_vars

\* One caller that posts and reads.
ReadIn == {MkPayload("A", "D", k, TRUE) : k \in {UNDEF, "k"}}
PageIn == {PageAbsent, PageNaN} \cup {PageInt(n) : n \in -1..2}
IdIn   == 1..(MaxPosts + 1)

NextRead ==
    \/ ConnectToDatabase
    \/ InitializeMySQLTable
    \/ InitDB
    \/ Listen
    \/ Tick
    \/ \E p \in ReadIn : Idle /\ PostReceive(p)
    \/ \E r \in InFlight : AcquireConn(r)
    \/ \E r \in InFlight : PostQuery(r)
    \/ \E r \in InFlight : PostRun(r)
    \/ \E q \in PageIn : Idle /\ ListReceive(q)
    \/ \E r \in InFlight : ListRows(r)
    \/ \E r \in InFlight : ListCount(r)
    \/ \E id \in IdIn : Idle /\ GetReceive(id)
    \/ \E r \in InFlight : GetQuery(r)

SpecRead == Init /\ [][NextRead]_vars

\* One caller that posts skills of every shape and reads them back.
\* "a, b ,  c", '["a"]', '[" a", ""]', '"a"' and ["a", "", null, " b "].
SkillsCommaText == JStr(<<"a", ",", SP, "b", SP, ",", SP, SP, "c">>)
SkillsJsonText  == JStr(<<"[", DQ, "a", DQ, "]">>)
SkillsJsonBlank == JStr(<<"[", DQ, SP, "a", DQ, ",", DQ, DQ, "]">>)
SkillsJsonStr   == JStr(<<DQ, "a", DQ>>)
SkillsMixedArr  == JArr(<<EStr(<<"a">>), EStr(<<>>), ENull, EStr(<<SP, "b", SP>>)>>)

SkillsIn ==
    {JUndef, JNull, JNum(<<"1">>),
     JStr(<<>>), JStr(<<"a">>), JStr(<<SP, "a", SP>>), JStr(<<"[">>), JStr(<<"1">>),
     SkillsCommaText, SkillsJsonText, SkillsJsonBlank, SkillsJsonStr,
     JArr(<<>>), JArr(<<EStr(<<"a">>)>>), JArr(<<EStr(<<"a">>), EStr(<<"b">>)>>),
     JArr(<<EStr(<<>>)>>), JArr(<<EStr(<<SP>>)>>), JArr(<<ENull>>),
     JArr(<<ENum(<<"1">>)>>), JArr(<<ENested>>), SkillsMixedArr}

NextSkills ==
    \/ ConnectToDatabase
    \/ InitializeMySQLTable
    \/ InitDB
    \/ Listen
    \/ \E sk \in SkillsIn : Idle /\ PostReceive(MkSkillsPayload(sk))
    \/ \E r \in InFlight : AcquireConn(r)
    \/ \E r \in InFlight : PostQuery(r)
    \/ \E r \in InFlight : PostRun(r)
    \/ Idle /\ ListReceive(PageAbsent)
    \/ \E r \in InFlight : ListRows(r)
    \/ \E r \in InFlight : ListCount(r)
    \/ Idle /\ GetReceive(1)
    \/ \E r \in InFlight : GetQuery(r)

SpecSkills == Init /\ [][NextSkills]_vars

----------------------------------------------------------------------------
(* Properties.                                                             *)

\* `last` is an accepted write (answered 201) whose statement has been run
\* by the store, with or without error.
Accepted ==
    \/ last.op = "post" /\ last.status = 201 /\ Backend # "sqlite"
    \/ last.op = "run"

\* `last` is an accepted write whose statement ran without error.
Applied == Accepted /\ ~last.failed

\* The values the write of `last` carried.
Written == BoundValues(Backend, last.p)

\* C1: an accepted write that carries a key already held by a record with a
\* different title leaves exactly one record under that key, and its title is
\* the title of this, the later, write.
C1_UpsertKeepsLatestTitle ==
    (Applied /\ last.prevRow # NoRow /\ last.prevRow.title # last.p.title) =>
        LET hit == RowsWithKey(posts, last.prevRow.job_req_id)
        IN  /\ Cardinality(hit) = 1
            /\ \A i \in hit : posts[i].title = last.p.title

\* No two records hold the same non-null job_req_id.
NoDuplicateKey ==
    \A i, j \in DOMAIN posts :
        (i # j /\ posts[i].job_req_id # NULL) => posts[i].job_req_id # posts[j].job_req_id

\* C2: under every interleaving of concurrent writes to one non-null key no
\* state holds two records with that key, and after each applied write the
\* record under the key carries that write's title, description and
\* apply_link (the last write applied wins).
C2_ConcurrentUpsertLastWins ==
    /\ NoDuplicateKey
    /\ (Applied /\ Written.job_req_id # NULL) =>
           \A i \in RowsWithKey(posts, Written.job_req_id) :
               /\ posts[i].title = Written.title
               /\ posts[i].description = Written.description
               /\ posts[i].apply_link = Written.apply_link

\* A skills column that holds a value: not NULL and not the empty array.
HoldsSkills(c) ==
    c \notin {JsonCell(JNull), JsonCell(JArr(<<>>)), TextCell(<<"[", "]">>)}

\* C3: a write that hits an existing key and leaves out apply_link,
\* company_logo or skills leaves the value the record held in that field as
\* it was.
C3_OmittedFieldsKept ==
    (Applied /\ last.prevRow # NoRow) =>
        \A i \in RowsWithKey(posts, last.prevRow.job_req_id) :
            /\ (last.p.apply_link = UNDEF /\ last.prevRow.apply_link # NULL)
                   => posts[i].apply_link = last.prevRow.apply_link
            /\ (last.p.company_logo = UNDEF /\ last.prevRow.company_logo # NULL)
                   => posts[i].company_logo = last.prevRow.company_logo
            /\ (last.p.skills = JUndef /\ HoldsSkills(last.prevRow.skills))
                   => posts[i].skills = last.prevRow.skills

\* A sequence of strings, each non-empty and without blanks at its ends.
WellFormedSkills(v) ==
    /\ v.t = "arr"
    /\ \A n \in DOMAIN v.a :
           /\ v.a[n].t = "str"
           /\ v.a[n].s # <<>>
           /\ v.a[n].s[1] # SP
           /\ v.a[n].s[Len(v.a[n].s)] # SP

\* The skills a column value stands for: a TEXT column holds JSON text.
AtRest(c) ==
    IF c.k = "json" THEN c.v
    ELSE LET r == JSONParse(c.cs) IN IF r.ok THEN r.v ELSE JStr(c.cs)

\* C4: the skills of every stored record, and of every record in a GET /posts
\* or GET /posts/:id response, is a sequence of non-empty trimmed strings.
C4_SkillsWellFormed ==
    /\ \A i \in DOMAIN posts : WellFormedSkills(AtRest(posts[i].skills))
    /\ (last.op = "list" /\ last.status = 200) =>
           \A n \in DOMAIN last.body.jobs : WellFormedSkills(last.body.jobs[n].skills)
    /\ (last.op = "get" /\ last.status = 200) =>
           WellFormedSkills(last.body.job.skills)

\* C5: an operation whose engine call failed is answered 500: no write whose
\* insert failed is answered 201 and no read whose query failed is answered
\* 404.
C5_FailureSurfaces == last.failed => last.status = 500

\* C6: every accepted write whose job_req_id is missing, null or empty adds
\* one record, with an id no earlier record has.
C6_NoKeyNoDedup ==
    (Accepted /\ Falsy(last.p.job_req_id)) =>
        /\ Len(posts) = last.prevLen + 1
        /\ \A i \in 1..last.prevLen : posts[i].id # posts[Len(posts)].id

\* C7: no step changes the id, the created_at or the key of a record that
\* exists, and no step adds a record under a key a record already holds.
C7_IdCreatedAtWriteOnce ==
    [][/\ \A i \in DOMAIN posts :
              /\ i \in DOMAIN posts'
              /\ posts'[i].id = posts[i].id
              /\ posts'[i].created_at = posts[i].created_at
              /\ posts'[i].job_req_id = posts[i].job_req_id
       /\ \A j \in DOMAIN posts' \ DOMAIN posts :
              RowsWithKey(posts, posts'[j].job_req_id) = {}]_vars

\* A write has hit an existing key a second or more after the record was
\* created, and has changed its title.
C7_Witness ==
    /\ Applied
    /\ last.prevRow # NoRow
    /\ now > last.prevRow.created_at
    /\ \E i \in DOMAIN posts :
           /\ posts[i].id = last.prevRow.id
           /\ posts[i].created_at = last.prevRow.created_at
           /\ posts[i].title # last.prevRow.title

\* The title or the description is missing, null or empty.
Rejectable(p) ==
    \/ p.title \in {UNDEF, NULL, ""}
    \/ p.description \in {UNDEF, NULL, ""}

\* C8: every answer to a POST whose title or description is empty or missing
\* is a 400, and the step that gives it changes neither the table nor the
\* id counter, and starts no statement.
C8_InvalidRejected ==
    [][(last' # last /\ last'.op = "post" /\ Rejectable(last'.p)) =>
           /\ last'.status = 400
           /\ posts' = posts
           /\ nextId' = nextId
           /\ inflight' = inflight]_vars

\* A POST without title or description was answered 400 while a record held
\* its job_req_id.
C8_Witness ==
    /\ last.op = "post"
    /\ last.status = 400
    /\ Rejectable(last.p)
    /\ RowsWithKey(posts, OrNull(last.p.job_req_id)) # {}

\* C9: the records of a list response are in created_at descending order,
\* ties in id descending order.
C9_ListTotalOrder ==
    (last.op = "list" /\ last.status = 200) =>
        \A m, n \in DOMAIN last.body.jobs :
            m < n =>
                \/ last.body.jobs[m].created_at > last.body.jobs[n].created_at
                \/ /\ last.body.jobs[m].created_at = last.body.jobs[n].created_at
                   /\ last.body.jobs[m].id > last.body.jobs[n].id

\* C10: a list response carries totalPages = ceil(totalJobs / 24),
\* hasNext = (page < totalPages) and hasPrev = (page > 1), and on an empty
\* store totalPages = 0 and neither flag is true, whatever the page.
C10_PaginationMetadata ==
    (last.op = "list" /\ last.status = 200) =>
        LET b == last.body
        IN  /\ b.totalPages * PageSize >= b.totalJobs
            /\ (b.totalPages - 1) * PageSize < b.totalJobs
            /\ b.hasFlags
            /\ b.hasNext = (b.currentPage < b.totalPages)
            /\ IF b.totalJobs = 0
               THEN b.totalPages = 0 /\ ~b.hasNext /\ ~b.hasPrev
               ELSE b.hasPrev = (b.currentPage > 1)

----------------------------------------------------------------------------
(* A server started on a store that already holds records.  The table is   *)
(* created with CREATE TABLE IF NOT EXISTS on a database file or a cloud   *)
(* database that outlives the process.                                     *)

\* A record written by an earlier run of the server, ts seconds ago.
StoredRow(i, ts) == [NoRow EXCEPT !.id = i, !.title = "A", !.description = "D",
                                  !.created_at = 0 - ts]

\* n records written one per second, the newest now.
Seed(n) == [i \in 1..n |-> StoredRow(i, n - i)]

\* The same, the two oldest written within one second.
SeedTied(n) == [i \in 1..n |-> StoredRow(i, Min(n - i, n - 2))]

\* No record, one record, a full page, a page and one record, two pages and
\* one record.
SeedIn ==
    {Seed(n) : n \in {0, 1, PageSize, PageSize + 1, 2 * PageSize + 1}}
        \cup {SeedTied(PageSize + 1)}

InitList ==
    /\ impl \in {"v6", "v8", "v12"}
    /\ env \in EnvIn(impl)
    /\ phase = "boot"
    /\ pool = "none"
    /\ isMySQL = FALSE
    /\ probes = 0
    /\ posts \in SeedIn
    /\ nextId = Len(posts) + 1
    /\ now = 0
    /\ checkedOut = 0
    /\ failures = 0
    /\ inflight = EmptyBag
    /\ last = NoLast

\* One caller that lists the pages of the store.
NextList ==
    \/ ConnectToDatabase
    \/ InitializeMySQLTable
    \/ InitDB
    \/ Listen
    \/ \E q \in PageIn : Idle /\ ListReceive(q)
    \/ \E r \in InFlight : AcquireConn(r)
    \/ \E r \in InFlight : ListRows(r)
    \/ \E r \in InFlight : ListCount(r)

SpecList == InitList /\ [][NextList]_vars

\* The requested page, at least 1, and 1 when absent or not a number.
ClampPage(q) == IF q.kind = "int" /\ q.n >= 1 THEN q.n ELSE 1

\* The positions of tbl from the newest record to the oldest, records of one
\* created_at by id descending.
RECURSIVE SortedPositions(_, _)
SortedPositions(tbl, S) ==
    IF S = {} THEN <<>>
    ELSE LET first == CHOOSE i \in S : \A j \in S \ {i} :
                          \/ tbl[i].created_at > tbl[j].created_at
                          \/ /\ tbl[i].created_at = tbl[j].created_at
                             /\ tbl[i].id > tbl[j].id
         IN  <<first>> \o SortedPositions(tbl, S \ {first})

\* The ids of the records at positions (p-1)*24 .. p*24-1 (counted from 0)
\* of the ordered record sequence.
PageIds(tbl, p) ==
    LET ord == SortedPositions(tbl, DOMAIN tbl)
    IN  {tbl[ord[k]].id : k \in (((p - 1) * 24 + 1)..(p * 24)) \cap DOMAIN ord}

\* One step of the server serves the list as specified: a request for page q
\* is admitted for the page ClampPage(q), and the response to a list request
\* whose queries succeeded is a 200 that carries the records of that page of
\* the ordered record sequence and no others, at most 24 of them.
ListPageWindowStep ==
    /\ \A q \in PageIn :
           ListReceive(q) =>
               \E r \in BagToSet(inflight') : r.op = "list" /\ r.page = ClampPage(q)
    /\ \A r \in InFlight :
           (r.op = "list" /\ r.pc = "count" /\ inflight' = Finish(r) /\ ~last'.failed) =>
               /\ last'.op = "list"
               /\ last'.status = 200
               /\ last'.body.currentPage = r.page
               /\ Len(last'.body.jobs) <= 24
               /\ {last'.body.jobs[n].id : n \in DOMAIN last'.body.jobs}
                      = PageIds(posts, r.page)

\* C11: a list request for page q is served for the page ClampPage(q); its
\* response is a success that carries exactly the records at positions
\* (p-1)*24 through p*24-1 of the record sequence ordered by created_at
\* descending and id descending, never more than 24, and none for a page
\* beyond the last.
C11_ListPageWindow == [][ListPageWindowStep]_vars

\* The store holds no two records of one created_at.
NoTies ==
    \A i, j \in DOMAIN posts : i # j => posts[i].created_at # posts[j].created_at

\* The list is served as specified from every store that holds no two records
\* of one created_at.
ListPageWindowNoTies == [][NoTies => ListPageWindowStep]_vars

----------------------------------------------------------------------------
(* The backend of the process.                                             *)

\* One step of the process keeps the backend it has: a pool that was chosen
\* is not replaced and isMySQL does not change with it, and a listening
\* server has a pool and opens no probing connection.
BackendKeptStep ==
    /\ pool # "none" => (pool' = pool /\ isMySQL' = isMySQL)
    /\ phase' = "listening" => pool' # "none"
    /\ phase = "listening" => (pool' = pool /\ isMySQL' = isMySQL /\ probes' = probes)

\* C12: the backend is chosen once, before the server listens: no step of a
\* listening server changes pool or isMySQL or probes the primary again,
\* whatever its requests do and however they fail.
C12_BackendChosenOnce == [][BackendKeptStep]_vars

\* A server that started on MySQL has answered 500 to a request that got no
\* connection, and is on MySQL still, having probed once.
C12_Witness ==
    /\ phase = "listening"
    /\ pool = "mysql" /\ isMySQL /\ probes = 1
    /\ last.failed /\ last.status = 500
    /\ checkedOut = 0

----------------------------------------------------------------------------
(* Startup without configuration of the primary store, or with a primary   *)
(* store that does not answer.                                             *)

\* The functions the startup code runs, one after the other, before and up
\* to app.listen.
Startup ==
    \/ ConnectToDatabase
    \/ InitializeMySQLTable
    \/ InitDB
    \/ Listen

\* Startup and one caller that lists pages.  Every awaited startup call
\* settles, so a startup step that can be taken is taken.
SpecStartup == Init /\ [][NextList]_vars /\ WF_vars(Startup)

\* The process has no configuration of its primary store at all.  v6 carries
\* a default for every setting.
ConfigAbsent ==
    \/ impl = "v8" /\ {"DB_HOST", "DB_USER", "DB_PASSWORD"} \cap env = {}
    \/ impl = "v12" /\ "DATABASE_URL" \notin env

\* The probe of the primary store has been made and has failed, and the
\* server is about to listen.
ProbeFailed ==
    /\ phase = "ready"
    /\ probes = 1
    /\ IF impl = "v12" THEN failures = 1 ELSE ~isMySQL

\* The server listens on the fallback store.
ListeningOnFallback == phase = "listening" /\ pool = "sqlite" /\ ~isMySQL

\* C13: with no configuration of the primary store, startup opens no
\* connection to it, does not end the process, and leads to a server that
\* listens on the fallback store; with configuration and a probe that fails,
\* startup leads to a server that listens on the fallback store as well.
C13_StartupFallsBack ==
    /\ [][ConfigAbsent => probes' = probes]_vars
    /\ [](ConfigAbsent => phase # "exited")
    /\ (ConfigAbsent ~> ListeningOnFallback)
    /\ (ProbeFailed ~> ListeningOnFallback)

\* The same for the revision that has a fallback store.
StartupFallsBackV8 ==
    /\ [][impl = "v8" /\ ConfigAbsent => probes' = probes]_vars
    /\ [](impl = "v8" /\ ConfigAbsent => phase # "exited")
    /\ (impl = "v8" /\ ConfigAbsent ~> ListeningOnFallback)
    /\ (impl # "v12" /\ ProbeFailed ~> ListeningOnFallback)

----------------------------------------------------------------------------
(* The connections of the MySQL pool.                                      *)

\* One step that finishes a request on MySQL gives back the connection the
\* handler holds: a handler past pool.getConnection() holds one, a handler
\* whose pool.getConnection() threw holds none.
ConnectionReleasedStep ==
    \A r \in InFlight :
        (isMySQL /\ inflight' = Finish(r)) =>
            checkedOut' = IF r.pc = "getconn" THEN checkedOut ELSE checkedOut - 1

\* C14: on MySQL every connection a handler got from pool.getConnection() is
\* released by the time the handler finishes, whether its queries succeeded
\* or failed, so that finished requests leave no connection checked out.
C14_ConnectionReleased == [][ConnectionReleasedStep]_vars

=============================================================================
